---- MODULE Spec2Model ----
(***************************************************************************)
(* Model of the mbc-tracker assessment scheduling and lifecycle engine:    *)
(* the questionnaire route (q/[token] GET and POST), the notification      *)
(* routes (manual send, cron send), and the scheduling service             *)
(* (getDefaultPolicy, createMeasureInstances, generateUpcomingInstances,   *)
(* markExpiredInstances, getDueAssessments), the compliance endpoint and   *)
(* the audit log.  Every request handler is split at the awaits            *)
(* that separate its database read from its database write, so that        *)
(* concurrent requests interleave as they do on the server.                *)
(* Time is counted in whole days.                                          *)
(***************************************************************************)
EXTENDS Integers, Sequences, FiniteSets, TLC

VARIABLES now, mbcPolicy, appointment, measureInstance, measureResponse,
          auditEvent, auditSink, slot, reply

vars == <<now, mbcPolicy, appointment, measureInstance, measureResponse,
          auditEvent, auditSink, slot, reply>>

(* ---------------------------- bounds ----------------------------------- *)

MaxNow == 2

MaxReq == 2

MaxInstances == 2

MaxIntake == 1

MaxExpirationDays == 1

MaxSweeps == 2

MaxAudit == 3

MaxRows == 3

(* ------------------------- program constants --------------------------- *)

NoTime == -1

NoAppointment == "none"

NoPolicy == [name |-> "none"]

Req == 1..MaxReq

Visitor == MaxReq + 1

Slots == Req \cup {Visitor}

Patients == {"p1"}

AppointmentIds == {"a1"}

ActiveStatuses == {"PENDING", "SENT", "STARTED"}

TerminalStatuses == {"COMPLETED", "EXPIRED", "CANCELLED"}

DefaultPolicy ==
  [name |-> "default", cadenceDays |-> 14, graceWindowDays |-> 3,
   expirationDays |-> 7, measuresRequired |-> <<"PHQ-9", "GAD-7">>,
   requireAtIntake |-> TRUE]

MeasureTable == <<"PHQ-9", "GAD-7">>

OneDay == 1

DaysAheadChoices == {1, 7}

DueDateChoices == {NoTime, 1}

(* --------------------------- pure helpers ------------------------------ *)

RECURSIVE SumValues(_)
SumValues(a) == IF a = <<>> THEN 0 ELSE Head(a).value + SumValues(Tail(a))

RECURSIVE SelectSeq2(_, _)
SelectSeq2(s, keep) ==
  IF s = <<>> THEN <<>>
  ELSE IF Head(s) \in keep THEN <<Head(s)>> \o SelectSeq2(Tail(s), keep)
       ELSE SelectSeq2(Tail(s), keep)

RECURSIVE IdsInOrder(_, _)
IdsInOrder(n, keep) ==
  IF n = 0 THEN <<>>
  ELSE IdsInOrder(n - 1, keep) \o (IF n \in keep THEN <<n>> ELSE <<>>)

AnswerArrays ==
  { <<>>,
    <<[questionNum |-> 1, value |-> 1], [questionNum |-> 2, value |-> 2]>>,
    <<[questionNum |-> 1, value |-> 3], [questionNum |-> 2, value |-> 4]>> }

Bodies ==
  {[isArray |-> FALSE, answers |-> <<>>]}
    \cup {[isArray |-> TRUE, answers |-> a] : a \in AnswerArrays}

QuestionCount(measureName) == IF measureName = "PHQ-9" THEN 9 ELSE 7

MaxBandScore(measureName) == IF measureName = "PHQ-9" THEN 27 ELSE 21

ScoringThrowsOnEmptyOnly(measureName, answers) ==
  \/ measureName \notin {"PHQ-9", "GAD-7"}
  \/ Len(answers) = 0

ScoringThrows(measureName, answers) ==
  \/ measureName \notin {"PHQ-9", "GAD-7"}
  \/ Len(answers) = 0
  \/ \E k \in 1..Len(answers) : answers[k].value < 0 \/ answers[k].value > 3
  \/ SumValues(answers) > MaxBandScore(measureName)

scoreMeasure(measureName, answers) == SumValues(answers)

(* ----------------------------- requests -------------------------------- *)

NoReport ==
  [startDate |-> NoTime, due |-> {}, overdue |-> {}, totalDue |-> 0,
   totalCompleted |-> 0, totalOverdue |-> 0, complianceRate |-> 0]

IdleSlot ==
  [op |-> "none", pc |-> "idle", iid |-> 0, count |-> 0,
   t |-> 0, st |-> "none", score |-> 0, rival |-> "none", seen |-> {},
   todo |-> <<>>, appts |-> <<>>,
   patientId |-> "none", appointmentId |-> NoAppointment, dueDate |-> NoTime,
   policy |-> NoPolicy, days |-> 0, report |-> NoReport]

NoReply == [op |-> "none", iid |-> 0, res |-> "none", count |-> 0, report |-> NoReport]

(* A request that returns frees its slot and leaves its HTTP result (or   *)
(* the function's return value) in reply.                                  *)
Returns(req, r, n) ==
  [op |-> req.op, iid |-> req.iid, res |-> r, count |-> n, report |-> req.report]

Respond(s, req, r, n) ==
  /\ slot' = [slot EXCEPT ![s] = IdleSlot]
  /\ reply' = Returns(req, r, n)

Proceed(s, req) ==
  /\ slot' = [slot EXCEPT ![s] = req]
  /\ UNCHANGED reply

(* ------------------------------ audit ---------------------------------- *)

Event(eventType, resourceType, resourceId) ==
  [eventType |-> eventType, resourceType |-> resourceType, resourceId |-> resourceId]

(* logAuditEvent: the write is appended when the sink accepts it and       *)
(* dropped (the error is caught and logged to the console) when it fails.  *)
logAuditEvent(log, accepts, event) == IF accepts THEN Append(log, event) ELSE log

AuditRoom(k) == auditSink => Len(auditEvent) + k <= MaxAudit

(* The audit store becomes unavailable: from here on every audit write     *)
(* throws inside logAuditEvent.                                            *)
SinkFails ==
  /\ auditSink
  /\ auditSink' = FALSE
  /\ UNCHANGED <<now, mbcPolicy, appointment, measureInstance, measureResponse,
                 auditEvent, slot, reply>>

NewInstance(patientId, measureId, appointmentId, dueDate, expiresAt) ==
  [patientId |-> patientId, measureId |-> measureId,
   appointmentId |-> appointmentId, dueDate |-> dueDate, expiresAt |-> expiresAt,
   status |-> "PENDING", sentAt |-> NoTime, startedAt |-> NoTime,
   completedAt |-> NoTime, sweeps |-> 0]

CustomPolicies ==
  {[DefaultPolicy EXCEPT !.expirationDays = e, !.measuresRequired = m] :
     e \in 0..MaxExpirationDays, m \in {<<"PHQ-9">>}}

AppointmentTables ==
  [AppointmentIds ->
     [patientId : Patients, scheduledAt : 0..MaxNow, isCancelled : BOOLEAN]]

(* The scheduling service starts on an empty instance table, with or      *)
(* without a stored policy.                                                *)
InitSchedule ==
  /\ now = 0
  /\ mbcPolicy \in {NoPolicy} \cup CustomPolicies
  /\ appointment \in AppointmentTables
  /\ measureInstance = <<>>
  /\ measureResponse = <<>>
  /\ auditEvent = <<>>
  /\ auditSink = TRUE
  /\ slot = [s \in Slots |-> IdleSlot]
  /\ reply = NoReply

(* The lifecycle routes start on the table that createMeasureInstances     *)
(* leaves at time 0 for one patient: n PENDING intake instances due at 0.  *)
IntakeTable(n, policy) ==
  [k \in 1..n |->
     NewInstance("p1", MeasureTable[((k - 1) % Len(MeasureTable)) + 1],
                 NoAppointment, 0, 0 + policy.expirationDays)]

Init ==
  /\ now = 0
  /\ \E e \in 0..MaxExpirationDays, n \in 1..MaxIntake :
        /\ mbcPolicy = [DefaultPolicy EXCEPT !.expirationDays = e]
        /\ measureInstance = IntakeTable(n, mbcPolicy)
  /\ appointment = [a \in AppointmentIds |->
                      [patientId |-> "p1", scheduledAt |-> 0, isCancelled |-> FALSE]]
  /\ measureResponse = <<>>
  /\ auditEvent = <<>>
  /\ auditSink = TRUE
  /\ slot = [s \in Slots |-> IdleSlot]
  /\ reply = NoReply

Tick ==
  /\ now < MaxNow
  /\ now' = now + 1
  /\ UNCHANGED <<mbcPolicy, appointment, measureInstance, measureResponse,
                 auditEvent, auditSink, slot, reply>>

(* ------------------- q/[token] GET: open the link ---------------------- *)

GetOutcomeExpiredFirst(instances, token, t) ==
  IF token \notin DOMAIN instances THEN "notFound"
  ELSE IF instances[token].status = "EXPIRED" \/ instances[token].expiresAt < t
       THEN "expired"
  ELSE IF instances[token].status = "COMPLETED" THEN "alreadyCompleted"
  ELSE IF instances[token].status \in {"PENDING", "SENT"} THEN "start"
  ELSE "ok"

GetOutcome(instances, token, t) ==
  IF token \notin DOMAIN instances THEN "notFound"
  ELSE IF instances[token].status = "COMPLETED" THEN "alreadyCompleted"
  ELSE IF instances[token].status = "EXPIRED" \/ instances[token].expiresAt < t
       THEN "expired"
  ELSE IF instances[token].status \in {"PENDING", "SENT"} THEN "start"
  ELSE "ok"

GetLoadRestarts(s, token) ==
  /\ slot[s].pc = "idle"
  /\ LET req == [IdleSlot EXCEPT !.op = "GET", !.iid = token]
         outcome == GetOutcome(measureInstance, token, now)
     IN IF outcome \in {"start", "ok"}
        THEN Proceed(s, [req EXCEPT !.pc = "getUpdate"])
        ELSE Respond(s, req, outcome, 0)
  /\ UNCHANGED <<now, mbcPolicy, appointment, measureInstance, measureResponse,
                 auditEvent, auditSink>>

GetLoad(s, token) ==
  /\ slot[s].pc = "idle"
  /\ LET req == [IdleSlot EXCEPT !.op = "GET", !.iid = token]
         outcome == GetOutcome(measureInstance, token, now)
     IN IF outcome = "start" THEN Proceed(s, [req EXCEPT !.pc = "getUpdate"])
        ELSE Respond(s, req, outcome, 0)
  /\ UNCHANGED <<now, mbcPolicy, appointment, measureInstance, measureResponse,
                 auditEvent, auditSink>>

GetUpdateAuditFatal(s) ==
  /\ slot[s].pc = "getUpdate"
  /\ measureInstance' =
       [measureInstance EXCEPT ![slot[s].iid].status = "STARTED",
                               ![slot[s].iid].startedAt = now]
  /\ AuditRoom(1)
  /\ auditEvent' = logAuditEvent(auditEvent, auditSink,
         Event("QUESTIONNAIRE_STARTED", "MeasureInstance", slot[s].iid))
  /\ Respond(s, slot[s], IF auditSink THEN "ok" ELSE "serverError", 0)
  /\ UNCHANGED <<now, mbcPolicy, appointment, measureResponse, auditSink>>

GetUpdate(s) ==
  /\ slot[s].pc = "getUpdate"
  /\ measureInstance' =
       [measureInstance EXCEPT ![slot[s].iid].status = "STARTED",
                               ![slot[s].iid].startedAt = now]
  /\ AuditRoom(1)
  /\ auditEvent' = logAuditEvent(auditEvent, auditSink,
         Event("QUESTIONNAIRE_STARTED", "MeasureInstance", slot[s].iid))
  /\ Respond(s, slot[s], "ok", 0)
  /\ UNCHANGED <<now, mbcPolicy, appointment, measureResponse, auditSink>>

(* ------------------ q/[token] POST: submit answers --------------------- *)

PostOutcome(instances, token, t, body) ==
  IF token \notin DOMAIN instances THEN "notFound"
  ELSE IF instances[token].status = "COMPLETED" THEN "alreadyCompleted"
  ELSE IF instances[token].expiresAt < t THEN "expired"
  ELSE IF ~body.isArray THEN "invalidFormat"
  ELSE IF ScoringThrows(instances[token].measureId, body.answers)
       THEN "scoringFailed"
  ELSE "commit"

PostLoad(s, token, body) ==
  /\ slot[s].pc = "idle"
  /\ LET req == [IdleSlot EXCEPT !.op = "POST", !.iid = token]
         outcome == PostOutcome(measureInstance, token, now, body)
     IN IF outcome = "commit"
        THEN Proceed(s, [req EXCEPT !.pc = "postCommit",
               !.st = measureInstance[token].status,
               !.score = scoreMeasure(measureInstance[token].measureId, body.answers)])
        ELSE Respond(s, req, outcome, 0)
  /\ UNCHANGED <<now, mbcPolicy, appointment, measureInstance, measureResponse,
                 auditEvent, auditSink>>

ResponseInsertConflicts(responses, instanceId) ==
  \E k \in DOMAIN responses : responses[k].measureInstanceId = instanceId

PendingSubmits(s) ==
  {u \in Slots \ {s} : /\ slot[u].pc = "postCommit"
                       /\ slot[u].iid = slot[s].iid
                       /\ slot[u].st = slot[s].st}

NoteRival(s, outcome) ==
  [u \in Slots |-> IF u = s THEN IdleSlot
                 ELSE IF u \in PendingSubmits(s) /\ slot[u].rival # "won"
                 THEN [slot[u] EXCEPT !.rival = outcome] ELSE slot[u]]

PostCommitScoreFirst(s) ==
  /\ slot[s].pc = "postCommit"
  /\ IF ResponseInsertConflicts(measureResponse, slot[s].iid)
     THEN /\ slot' = NoteRival(s, "lost")
          /\ reply' = Returns(slot[s], "serverError", 0)
          /\ UNCHANGED <<measureInstance, measureResponse, auditEvent>>
     ELSE /\ AuditRoom(2)
          /\ measureResponse' =
               Append(measureResponse,
                      [measureInstanceId |-> slot[s].iid,
                       totalScore |-> slot[s].score, completedAt |-> now])
          /\ measureInstance' =
               [measureInstance EXCEPT ![slot[s].iid].status = "COMPLETED",
                                       ![slot[s].iid].completedAt = now]
          /\ auditEvent' =
               logAuditEvent(
                 logAuditEvent(auditEvent, auditSink,
                   Event("SCORE_COMPUTED", "MeasureResponse",
                         Len(measureResponse) + 1)),
                 auditSink,
                 Event("QUESTIONNAIRE_SUBMITTED", "MeasureResponse", Len(measureResponse) + 1))
          /\ slot' = NoteRival(s, "won")
          /\ reply' = Returns(slot[s], "ok", 0)
  /\ UNCHANGED <<now, mbcPolicy, appointment, auditSink>>

PostCommit(s) ==
  /\ slot[s].pc = "postCommit"
  /\ IF ResponseInsertConflicts(measureResponse, slot[s].iid)
     THEN /\ slot' = NoteRival(s, "lost")
          /\ reply' = Returns(slot[s], "serverError", 0)
          /\ UNCHANGED <<measureInstance, measureResponse, auditEvent>>
     ELSE /\ AuditRoom(2)
          /\ measureResponse' =
               Append(measureResponse,
                      [measureInstanceId |-> slot[s].iid,
                       totalScore |-> slot[s].score, completedAt |-> now])
          /\ measureInstance' =
               [measureInstance EXCEPT ![slot[s].iid].status = "COMPLETED",
                                       ![slot[s].iid].completedAt = now]
          /\ auditEvent' =
               logAuditEvent(
                 logAuditEvent(auditEvent, auditSink,
                   Event("QUESTIONNAIRE_SUBMITTED", "MeasureResponse",
                         Len(measureResponse) + 1)),
                 auditSink,
                 Event("SCORE_COMPUTED", "MeasureResponse", Len(measureResponse) + 1))
          /\ slot' = NoteRival(s, "won")
          /\ reply' = Returns(slot[s], "ok", 0)
  /\ UNCHANGED <<now, mbcPolicy, appointment, auditSink>>

(* ------------- notifications/send POST: manual send -------------------- *)

PatientHasEmail(p) == p \in Patients

SendOutcome(instances, instanceId) ==
  IF instanceId \notin DOMAIN instances THEN "notFound"
  ELSE IF ~PatientHasEmail(instances[instanceId].patientId) THEN "noEmail"
  ELSE IF instances[instanceId].status \in {"COMPLETED", "CANCELLED"}
       THEN "cannotSend"
  ELSE IF instances[instanceId].status = "EXPIRED" THEN "cannotSendExpired"
  ELSE "dispatch"

SendLoad(s, instanceId) ==
  /\ slot[s].pc = "idle"
  /\ LET req == [IdleSlot EXCEPT !.op = "send", !.iid = instanceId]
         outcome == SendOutcome(measureInstance, instanceId)
     IN IF outcome = "dispatch" THEN Proceed(s, [req EXCEPT !.pc = "sendDispatch"])
        ELSE Respond(s, req, outcome, 0)
  /\ UNCHANGED <<now, mbcPolicy, appointment, measureInstance, measureResponse,
                 auditEvent, auditSink>>

SendDispatch(s, success) ==
  /\ slot[s].pc = "sendDispatch"
  /\ IF ~success
     THEN /\ Respond(s, slot[s], "sendFailed", 0)
          /\ UNCHANGED <<measureInstance, auditEvent>>
     ELSE /\ AuditRoom(1)
          /\ measureInstance' =
               [measureInstance EXCEPT ![slot[s].iid].status = "SENT",
                                       ![slot[s].iid].sentAt = now]
          /\ auditEvent' = logAuditEvent(auditEvent, auditSink,
                 Event("LINK_SENT", "MeasureInstance", slot[s].iid))
          /\ Respond(s, slot[s], "ok", 0)
  /\ UNCHANGED <<now, mbcPolicy, appointment, measureResponse, auditSink>>

(* ------------- cron/send-notifications: batch send --------------------- *)

PendingToSend(instances, t) ==
  {i \in DOMAIN instances :
     /\ instances[i].status = "PENDING"
     /\ instances[i].dueDate <= t + OneDay
     /\ PatientHasEmail(instances[i].patientId)}

CronSendLoad(s) ==
  /\ slot[s].pc = "idle"
  /\ LET req == [IdleSlot EXCEPT !.op = "cronSend"]
         todo == IdsInOrder(Len(measureInstance), PendingToSend(measureInstance, now))
     IN IF todo = <<>> THEN Respond(s, req, "ok", 0)
        ELSE Proceed(s, [req EXCEPT !.pc = "cronSendLoop", !.todo = todo])
  /\ UNCHANGED <<now, mbcPolicy, appointment, measureInstance, measureResponse,
                 auditEvent, auditSink>>

CronSendStep(s, success) ==
  /\ slot[s].pc = "cronSendLoop"
  /\ LET id == Head(slot[s].todo)
         rest == Tail(slot[s].todo)
         sent == IF success THEN slot[s].count + 1 ELSE slot[s].count
     IN /\ success => AuditRoom(1)
        /\ measureInstance' =
             IF success
             THEN [measureInstance EXCEPT ![id].status = "SENT", ![id].sentAt = now]
             ELSE measureInstance
        /\ auditEvent' =
             IF success
             THEN logAuditEvent(auditEvent, auditSink,
                                Event("LINK_SENT", "MeasureInstance", id))
             ELSE auditEvent
        /\ IF rest = <<>> THEN Respond(s, slot[s], "ok", sent)
           ELSE Proceed(s, [slot[s] EXCEPT !.todo = rest, !.count = sent])
  /\ UNCHANGED <<now, mbcPolicy, appointment, measureResponse, auditSink>>

(* ---------------- markExpiredInstances: expiration sweep --------------- *)

ExpirableAnyStatus(instances, t) ==
  {i \in DOMAIN instances : instances[i].expiresAt < t}

Expirable(instances, t) ==
  {i \in DOMAIN instances :
     instances[i].status \in ActiveStatuses /\ instances[i].expiresAt < t}

updateManyExpired(instances, t) ==
  [rows |-> [i \in DOMAIN instances |->
               IF i \in Expirable(instances, t)
               THEN [instances[i] EXCEPT !.status = "EXPIRED",
                         !.sweeps = IF @ < MaxSweeps THEN @ + 1 ELSE @]
               ELSE instances[i]],
   count |-> Cardinality(Expirable(instances, t))]

MarkExpiredStart(s) ==
  /\ slot[s].pc = "idle"
  /\ Proceed(s, [IdleSlot EXCEPT !.op = "sweep", !.t = now, !.pc = "sweepUpdate"])
  /\ UNCHANGED <<now, mbcPolicy, appointment, measureInstance, measureResponse,
                 auditEvent, auditSink>>

NoteSwept(s, ids) ==
  [u \in Slots |-> IF u = s THEN IdleSlot
                   ELSE IF slot[u].pc = "sweepUpdate"
                   THEN [slot[u] EXCEPT !.seen = @ \cup ids] ELSE slot[u]]

MarkExpiredUpdate(s) ==
  /\ slot[s].pc = "sweepUpdate"
  /\ LET result == updateManyExpired(measureInstance, slot[s].t)
     IN /\ measureInstance' = result.rows
        /\ slot' = NoteSwept(s, Expirable(measureInstance, slot[s].t))
        /\ reply' = Returns(slot[s], "ok", result.count)
  /\ UNCHANGED <<now, mbcPolicy, appointment, measureResponse, auditEvent, auditSink>>

(* ---------------------- getDefaultPolicy ------------------------------- *)

IntakeNeverSkipped(policy) == FALSE

IntakeSkipped(policy) == ~policy.requireAtIntake

(* createIntakeAssessments returns [] when the policy does not require     *)
(* intake assessments; otherwise it calls createMeasureInstances with      *)
(* dueDate = new Date(), which looks the policy up a second time.          *)
PolicyResolved(s, req, policy) ==
  IF req.op = "policy" THEN Respond(s, req, "ok", 0)
  ELSE IF req.op \in {"due", "compliance"}
       THEN Proceed(s, [req EXCEPT !.pc = "dueQuery", !.policy = policy])
  ELSE IF req.op = "intake"
       THEN IF IntakeSkipped(policy) THEN Respond(s, req, "ok", 0)
            ELSE Proceed(s, [req EXCEPT !.op = "intakeCreate", !.pc = "policyFind",
                                        !.dueDate = now])
  ELSE Proceed(s, [req EXCEPT !.pc = "findMeasures", !.policy = policy])

PolicyFound(s, req) ==
  IF mbcPolicy # NoPolicy THEN PolicyResolved(s, req, mbcPolicy)
  ELSE Proceed(s, [req EXCEPT !.pc = "policyCreate"])

GetDefaultPolicyCall(s) ==
  /\ slot[s].pc = "idle"
  /\ PolicyFound(s, [IdleSlot EXCEPT !.op = "policy"])
  /\ UNCHANGED <<now, mbcPolicy, appointment, measureInstance, measureResponse,
                 auditEvent, auditSink>>

PolicyFind(s) ==
  /\ slot[s].pc = "policyFind"
  /\ PolicyFound(s, slot[s])
  /\ UNCHANGED <<now, mbcPolicy, appointment, measureInstance, measureResponse,
                 auditEvent, auditSink>>

PolicyCreate(s) ==
  /\ slot[s].pc = "policyCreate"
  /\ IF mbcPolicy # NoPolicy
     THEN /\ Respond(s, slot[s], "conflict", slot[s].count)
          /\ UNCHANGED mbcPolicy
     ELSE /\ mbcPolicy' = DefaultPolicy
          /\ PolicyResolved(s, slot[s], DefaultPolicy)
  /\ UNCHANGED <<now, appointment, measureInstance, measureResponse,
                 auditEvent, auditSink>>

(* -------------------- createMeasureInstances --------------------------- *)

Range(q) == {q[k] : k \in DOMAIN q}

ExpiresAtFromNow(dueDate, expirationDays) == now + expirationDays

ExpiresAt(dueDate, expirationDays) == dueDate + expirationDays

CreateCall(s, patientId, appointmentId, dueDate) ==
  /\ slot[s].pc = "idle"
  /\ appointmentId # NoAppointment => appointment[appointmentId].patientId = patientId
  /\ PolicyFound(s, [IdleSlot EXCEPT !.op = "create",
         !.patientId = patientId, !.appointmentId = appointmentId,
         !.dueDate = dueDate])
  /\ UNCHANGED <<now, mbcPolicy, appointment, measureInstance, measureResponse,
                 auditEvent, auditSink>>

CreatePrepare(s) ==
  /\ slot[s].pc = "findMeasures"
  /\ Proceed(s, [slot[s] EXCEPT
       !.pc = "createInsert",
       !.todo = SelectSeq2(MeasureTable, Range(slot[s].policy.measuresRequired)),
       !.dueDate = IF @ = NoTime THEN now ELSE @])
  /\ UNCHANGED <<now, mbcPolicy, appointment, measureInstance, measureResponse,
                 auditEvent, auditSink>>

NextEncounter(s, req) ==
  IF req.op = "generate" /\ req.appts # <<>>
  THEN Proceed(s, [req EXCEPT !.pc = "policyFind", !.appts = Tail(@),
                   !.patientId = appointment[Head(req.appts)].patientId,
                   !.appointmentId = Head(req.appts),
                   !.dueDate = appointment[Head(req.appts)].scheduledAt,
                   !.todo = <<>>])
  ELSE Respond(s, req, "ok", req.count)

CreateInsert(s) ==
  /\ slot[s].pc = "createInsert"
  /\ IF slot[s].todo = <<>>
     THEN /\ UNCHANGED <<measureInstance, auditEvent>>
          /\ NextEncounter(s, slot[s])
     ELSE /\ Len(measureInstance) < MaxInstances
          /\ AuditRoom(1)
          /\ auditEvent' = logAuditEvent(auditEvent, auditSink,
                 Event("INSTANCE_CREATED", "MeasureInstance", Len(measureInstance) + 1))
          /\ measureInstance' =
               Append(measureInstance,
                      NewInstance(slot[s].patientId, Head(slot[s].todo),
                                  slot[s].appointmentId, slot[s].dueDate,
                                  ExpiresAt(slot[s].dueDate,
                                            slot[s].policy.expirationDays)))
          /\ IF Tail(slot[s].todo) = <<>>
             THEN NextEncounter(s, [slot[s] EXCEPT !.count = @ + 1])
             ELSE Proceed(s, [slot[s] EXCEPT !.todo = Tail(@), !.count = @ + 1])
  /\ UNCHANGED <<now, mbcPolicy, appointment, measureResponse, auditSink>>

(* ------------------ patients POST: create a patient -------------------- *)

(* The new patient's id is fresh: no stored instance refers to it.  The    *)
(* handler logs PATIENT_CREATED and then calls createIntakeAssessments.    *)
PatientsPost(s, patientId) ==
  /\ slot[s].pc = "idle"
  /\ \A i \in DOMAIN measureInstance : measureInstance[i].patientId # patientId
  /\ AuditRoom(1)
  /\ auditEvent' = logAuditEvent(auditEvent, auditSink,
         Event("PATIENT_CREATED", "Patient", patientId))
  /\ PolicyFound(s, [IdleSlot EXCEPT !.op = "intake", !.patientId = patientId,
                                     !.t = now])
  /\ UNCHANGED <<now, mbcPolicy, appointment, measureInstance, measureResponse,
                 auditSink>>

(* ------------------- generateUpcomingInstances ------------------------- *)

RECURSIVE SetToSeq(_)
SetToSeq(S) ==
  IF S = {} THEN <<>>
  ELSE LET x == CHOOSE y \in S : TRUE IN <<x>> \o SetToSeq(S \ {x})

UpcomingAppointmentsIgnoringInstances(t, daysAhead) ==
  {a \in AppointmentIds :
     /\ appointment[a].scheduledAt >= t
     /\ appointment[a].scheduledAt <= t + daysAhead
     /\ ~appointment[a].isCancelled}

UpcomingAppointments(t, daysAhead) ==
  {a \in AppointmentIds :
     /\ appointment[a].scheduledAt >= t
     /\ appointment[a].scheduledAt <= t + daysAhead
     /\ ~appointment[a].isCancelled
     /\ ~\E i \in DOMAIN measureInstance : measureInstance[i].appointmentId = a}

GenerateSelect(s, daysAhead) ==
  /\ slot[s].pc = "idle"
  /\ NextEncounter(s, [IdleSlot EXCEPT !.op = "generate", !.days = daysAhead,
         !.appts = SetToSeq(UpcomingAppointments(now, daysAhead))])
  /\ UNCHANGED <<now, mbcPolicy, appointment, measureInstance, measureResponse,
                 auditEvent, auditSink>>

(* ---------------- getDueAssessments and compliance GET ----------------- *)

GraceChoices == {1, 2}

DaysChoices == {3, 30}

DueSetOpenGrace(instances, t, g) ==
  {i \in DOMAIN instances :
     /\ instances[i].status \in {"PENDING", "SENT", "STARTED"}
     /\ instances[i].dueDate <= t
     /\ instances[i].dueDate > t - g}

DueSet(instances, t, g) ==
  {i \in DOMAIN instances :
     /\ instances[i].status \in {"PENDING", "SENT", "STARTED"}
     /\ instances[i].dueDate <= t
     /\ instances[i].dueDate >= t - g}

OverdueSet(instances, t, g) ==
  {i \in DOMAIN instances :
     /\ instances[i].status \in {"PENDING", "SENT", "STARTED"}
     /\ instances[i].dueDate < t - g
     /\ instances[i].expiresAt > t}

TotalDue(instances, startDate) ==
  Cardinality({i \in DOMAIN instances : instances[i].dueDate >= startDate})

TotalCompleted(instances, startDate) ==
  Cardinality({i \in DOMAIN instances :
                 /\ instances[i].status = "COMPLETED"
                 /\ instances[i].completedAt >= startDate})

TotalOverdue(instances, t) ==
  Cardinality({i \in DOMAIN instances :
                 /\ instances[i].status \in {"PENDING", "SENT", "STARTED"}
                 /\ instances[i].dueDate < t
                 /\ instances[i].expiresAt > t})

(* Math.round(x * 10) / 10 of x = completed / due * 100, kept in tenths of *)
(* a percent: Math.round rounds to the nearest integer, halves upward.     *)
RoundDiv(n, d) == (2 * n + d) \div (2 * d)

ComplianceRateTruncated(totalCompleted, totalDue) ==
  IF totalDue > 0 THEN (1000 * totalCompleted) \div totalDue ELSE 1000

ComplianceRate(totalCompleted, totalDue) ==
  IF totalDue > 0 THEN RoundDiv(1000 * totalCompleted, totalDue) ELSE 1000

DueCall(s) ==
  /\ slot[s].pc = "idle"
  /\ PolicyFound(s, [IdleSlot EXCEPT !.op = "due"])
  /\ UNCHANGED <<now, mbcPolicy, appointment, measureInstance, measureResponse,
                 auditEvent, auditSink>>

ComplianceLoad(s, days) ==
  /\ slot[s].pc = "idle"
  /\ LET totalDue == TotalDue(measureInstance, now - days)
         totalCompleted == TotalCompleted(measureInstance, now - days)
     IN Proceed(s, [IdleSlot EXCEPT !.op = "compliance", !.pc = "policyFind",
              !.days = days,
              !.report = [NoReport EXCEPT
                 !.startDate = now - days,
                 !.totalDue = totalDue,
                 !.totalCompleted = totalCompleted,
                 !.totalOverdue = TotalOverdue(measureInstance, now),
                 !.complianceRate = ComplianceRate(totalCompleted, totalDue)]])
  /\ UNCHANGED <<now, mbcPolicy, appointment, measureInstance, measureResponse,
                 auditEvent, auditSink>>

DueQuery(s) ==
  /\ slot[s].pc = "dueQuery"
  /\ Proceed(s, [slot[s] EXCEPT !.pc = "overdueQuery", !.t = now,
         !.report.due = DueSet(measureInstance, now, slot[s].policy.graceWindowDays)])
  /\ UNCHANGED <<now, mbcPolicy, appointment, measureInstance, measureResponse,
                 auditEvent, auditSink>>

OverdueQueryExpiring(s) ==
  /\ slot[s].pc = "overdueQuery"
  /\ LET overdue == OverdueSet(measureInstance, slot[s].t,
                                slot[s].policy.graceWindowDays)
     IN Respond(s, [slot[s] EXCEPT !.report.overdue = overdue], "ok",
                Cardinality(overdue))
  /\ measureInstance' = updateManyExpired(measureInstance, slot[s].t).rows
  /\ UNCHANGED <<now, mbcPolicy, appointment, measureResponse, auditEvent, auditSink>>

OverdueQuery(s) ==
  /\ slot[s].pc = "overdueQuery"
  /\ LET overdue == OverdueSet(measureInstance, slot[s].t,
                                slot[s].policy.graceWindowDays)
     IN Respond(s, [slot[s] EXCEPT !.report.overdue = overdue], "ok",
                Cardinality(overdue))
  /\ UNCHANGED <<now, mbcPolicy, appointment, measureInstance, measureResponse,
                 auditEvent, auditSink>>

(* The aggregator reads a table that earlier scheduling and lifecycle      *)
(* activity has left: instances of every status, due before and after the  *)
(* current day, completed ones with their Response.                        *)
Row(status, dueDate, expiresAt, sentAt, startedAt, completedAt) ==
  [NewInstance("p1", "PHQ-9", NoAppointment, dueDate, expiresAt) EXCEPT
     !.status = status, !.sentAt = sentAt, !.startedAt = startedAt,
     !.completedAt = completedAt,
     !.sweeps = IF status = "EXPIRED" THEN 1 ELSE 0]

AggregateRows ==
  { Row("SENT", -4, 1, -4, NoTime, NoTime),
    Row("STARTED", -2, 5, NoTime, -2, NoTime),
    Row("PENDING", 1, 8, NoTime, NoTime, NoTime),
    Row("COMPLETED", -2, 5, NoTime, -2, -1),
    Row("COMPLETED", -4, 3, NoTime, -4, 0) }

RECURSIVE ResponsesFor(_, _)
ResponsesFor(instances, n) ==
  IF n = 0 THEN <<>>
  ELSE ResponsesFor(instances, n - 1) \o
         (IF instances[n].status = "COMPLETED"
          THEN <<[measureInstanceId |-> n, totalScore |-> 3,
                  completedAt |-> instances[n].completedAt]>>
          ELSE <<>>)

InitAggregate ==
  /\ now = 0
  /\ mbcPolicy \in {NoPolicy} \cup
                    {[DefaultPolicy EXCEPT !.graceWindowDays = g] : g \in GraceChoices}
  /\ appointment = [a \in AppointmentIds |->
                      [patientId |-> "p1", scheduledAt |-> 0, isCancelled |-> FALSE]]
  /\ \E n \in 0..MaxRows : measureInstance \in [1..n -> AggregateRows]
  /\ measureResponse = ResponsesFor(measureInstance, Len(measureInstance))
  /\ auditEvent = <<>>
  /\ auditSink = TRUE
  /\ slot = [s \in Slots |-> IdleSlot]
  /\ reply = NoReply

(* Creation and the lifecycle routes under a stored policy, starting on an *)
(* empty instance table.                                                   *)
InitAudit ==
  /\ now = 0
  /\ mbcPolicy \in CustomPolicies
  /\ appointment = [a \in AppointmentIds |->
                      [patientId |-> "p1", scheduledAt |-> 0, isCancelled |-> FALSE]]
  /\ measureInstance = <<>>
  /\ measureResponse = <<>>
  /\ auditEvent = <<>>
  /\ auditSink = TRUE
  /\ slot = [s \in Slots |-> IdleSlot]
  /\ reply = NoReply

(* The questionnaire routes on a table holding a cancelled instance: no    *)
(* handler writes CANCELLED, the status is stored by other means.          *)
InitCancelled ==
  /\ now = 0
  /\ \E e \in 0..MaxExpirationDays :
        /\ mbcPolicy = [DefaultPolicy EXCEPT !.expirationDays = e]
        /\ measureInstance =
             [k \in 1..1 |-> [IntakeTable(1, mbcPolicy)[k] EXCEPT !.status = "CANCELLED"]]
  /\ appointment = [a \in AppointmentIds |->
                      [patientId |-> "p1", scheduledAt |-> 0, isCancelled |-> FALSE]]
  /\ measureResponse = <<>>
  /\ auditEvent = <<>>
  /\ auditSink = TRUE
  /\ slot = [s \in Slots |-> IdleSlot]
  /\ reply = NoReply

Lifecycle(R) ==
  \/ Tick
  \/ \E s \in R, token \in 1..MaxInstances : GetLoad(s, token)
  \/ \E s \in R : GetUpdate(s)
  \/ \E s \in R, token \in 1..MaxInstances, body \in Bodies :
       PostLoad(s, token, body)
  \/ \E s \in R : PostCommit(s)
  \/ \E s \in R, id \in 1..MaxInstances : SendLoad(s, id)
  \/ \E s \in R, success \in BOOLEAN : SendDispatch(s, success)
  \/ \E s \in R : CronSendLoad(s)
  \/ \E s \in R, success \in BOOLEAN : CronSendStep(s, success)
  \/ \E s \in R : MarkExpiredStart(s)
  \/ \E s \in R : MarkExpiredUpdate(s)

Schedule(R) ==
  \/ Tick
  \/ \E s \in R : GetDefaultPolicyCall(s)
  \/ \E s \in R : PolicyFind(s)
  \/ \E s \in R : PolicyCreate(s)
  \/ \E s \in R, p \in Patients, a \in AppointmentIds \cup {NoAppointment},
        d \in DueDateChoices : CreateCall(s, p, a, d)
  \/ \E s \in R : CreatePrepare(s)
  \/ \E s \in R : CreateInsert(s)
  \/ \E s \in R, daysAhead \in DaysAheadChoices : GenerateSelect(s, daysAhead)

Next == Lifecycle(Req)

(* Concurrent lifecycle requests on an existing instance table.            *)
Spec == Init /\ [][Next]_vars

(* One lifecycle request at a time.                                        *)
NextSeq == Lifecycle({1})

SpecSeq == Init /\ [][NextSeq]_vars

(* Concurrent calls of the scheduling service.                             *)
NextSchedule == Schedule(Req)

SpecSchedule == InitSchedule /\ [][NextSchedule]_vars

(* Overlapping runs of the cron generate-instances job.                    *)
NextGenerate ==
  \/ Tick
  \/ \E s \in Req, daysAhead \in DaysAheadChoices : GenerateSelect(s, daysAhead)
  \/ \E s \in Req : PolicyFind(s)
  \/ \E s \in Req : PolicyCreate(s)
  \/ \E s \in Req : CreatePrepare(s)
  \/ \E s \in Req : CreateInsert(s)

SpecGenerate == InitSchedule /\ [][NextGenerate]_vars

(* Overlapping sweep runs while one patient opens a link.                  *)
NextSweepRace ==
  \/ Tick
  \/ \E s \in Req : MarkExpiredStart(s)
  \/ \E s \in Req : MarkExpiredUpdate(s)
  \/ \E token \in 1..MaxInstances : GetLoad(Visitor, token)
  \/ GetUpdate(Visitor)

SpecSweepRace == Init /\ [][NextSweepRace]_vars

(* One call of the scheduling service at a time.                           *)
NextScheduleSeq == Schedule({1})

SpecScheduleSeq == InitSchedule /\ [][NextScheduleSeq]_vars

(* One aggregator call at a time on a stored table.                        *)
NextAggregate ==
  \/ Tick
  \/ DueCall(1)
  \/ \E days \in DaysChoices : ComplianceLoad(1, days)
  \/ PolicyFind(1)
  \/ PolicyCreate(1)
  \/ DueQuery(1)
  \/ OverdueQuery(1)

SpecAggregate == InitAggregate /\ [][NextAggregate]_vars

(* The creation of one patient's instances and the lifecycle requests on   *)
(* them, one request at a time, during which the audit sink may go down.   *)
NextAudit ==
  \/ SinkFails
  \/ Tick
  \/ \E d \in DueDateChoices :
       measureInstance = <<>> /\ CreateCall(1, "p1", NoAppointment, d)
  \/ CreatePrepare(1)
  \/ CreateInsert(1)
  \/ \E token \in 1..MaxInstances : GetLoad(1, token)
  \/ GetUpdate(1)
  \/ \E token \in 1..MaxInstances, body \in Bodies : PostLoad(1, token, body)
  \/ PostCommit(1)
  \/ \E id \in 1..MaxInstances : SendLoad(1, id)
  \/ \E success \in BOOLEAN : SendDispatch(1, success)

SpecAudit == InitAudit /\ [][NextAudit]_vars

(* One patient's open-link and submit requests, one at a time, with the    *)
(* expiration sweep running in between.                                    *)
NextVisit ==
  \/ Tick
  \/ \E token \in 1..MaxInstances : GetLoad(1, token)
  \/ GetUpdate(1)
  \/ \E token \in 1..MaxInstances, body \in Bodies : PostLoad(1, token, body)
  \/ PostCommit(1)
  \/ MarkExpiredStart(1)
  \/ MarkExpiredUpdate(1)

SpecVisit == Init /\ [][NextVisit]_vars

(* Concurrent questionnaire and send requests on a cancelled instance.     *)
NextCancelled ==
  \/ Tick
  \/ \E s \in Req, token \in 1..MaxInstances : GetLoad(s, token)
  \/ \E s \in Req, token \in 1..MaxInstances, body \in Bodies :
       PostLoad(s, token, body)
  \/ \E s \in Req : PostCommit(s)
  \/ \E s \in Req, id \in 1..MaxInstances : SendLoad(s, id)

SpecCancelled == InitCancelled /\ [][NextCancelled]_vars

(* Patient creation under every stored policy: one or two required        *)
(* measures, intake assessments required or not, or no stored policy.      *)
IntakePolicies ==
  {[DefaultPolicy EXCEPT !.expirationDays = e, !.measuresRequired = m,
                         !.requireAtIntake = r] :
     e \in 0..MaxExpirationDays, m \in {<<"PHQ-9">>, <<"PHQ-9", "GAD-7">>},
     r \in BOOLEAN}

InitIntake ==
  /\ now = 0
  /\ mbcPolicy \in {NoPolicy} \cup IntakePolicies
  /\ appointment = [a \in AppointmentIds |->
                      [patientId |-> "p1", scheduledAt |-> 0, isCancelled |-> FALSE]]
  /\ measureInstance = <<>>
  /\ measureResponse = <<>>
  /\ auditEvent = <<>>
  /\ auditSink = TRUE
  /\ slot = [s \in Slots |-> IdleSlot]
  /\ reply = NoReply

NextIntake ==
  \/ Tick
  \/ \E p \in Patients : PatientsPost(1, p)
  \/ PolicyFind(1)
  \/ PolicyCreate(1)
  \/ CreatePrepare(1)
  \/ CreateInsert(1)

SpecIntake == InitIntake /\ [][NextIntake]_vars

(* One client sending open-link, submit and manual send requests while the *)
(* cron job runs the expiration sweep again and again and the clock        *)
(* advances.  Every handler that has started runs to its end.  The audit   *)
(* log only grows and no handler reads it, so its writes are not recorded  *)
(* here (the sink drops them).                                             *)
InitFair ==
  /\ now = 0
  /\ \E e \in 0..MaxExpirationDays, n \in 1..MaxIntake :
        /\ mbcPolicy = [DefaultPolicy EXCEPT !.expirationDays = e]
        /\ measureInstance = IntakeTable(n, mbcPolicy)
  /\ appointment = [a \in AppointmentIds |->
                      [patientId |-> "p1", scheduledAt |-> 0, isCancelled |-> FALSE]]
  /\ measureResponse = <<>>
  /\ auditEvent = <<>>
  /\ auditSink = FALSE
  /\ slot = [s \in Slots |-> IdleSlot]
  /\ reply = NoReply

ClientStep ==
  \/ \E token \in 1..MaxInstances : GetLoad(1, token)
  \/ \E token \in 1..MaxInstances, body \in Bodies : PostLoad(1, token, body)
  \/ \E id \in 1..MaxInstances : SendLoad(1, id)

ClientContinues ==
  \/ GetUpdate(1)
  \/ PostCommit(1)
  \/ \E success \in BOOLEAN : SendDispatch(1, success)

SweepStep ==
  \/ MarkExpiredStart(Visitor)
  \/ MarkExpiredUpdate(Visitor)

NextFair ==
  \/ Tick
  \/ ClientStep
  \/ ClientContinues
  \/ SweepStep

SpecFair ==
  /\ InitFair
  /\ [][NextFair]_vars
  /\ WF_vars(Tick)
  /\ WF_vars(SweepStep)
  /\ WF_vars(ClientContinues)

(* ======================= claims C1 .. C10 ============================== *)

ResponsesOf(i) ==
  {k \in DOMAIN measureResponse : measureResponse[k].measureInstanceId = i}

CommitsNow(u) == slot[u].pc = "postCommit" /\ slot'[u].pc = "idle"

SweepsNow(u) == slot[u].pc = "sweepUpdate" /\ slot'[u].pc = "idle"

InsertsNow == Len(measureInstance') = Len(measureInstance) + 1

(* C1: terminal invariant.  Once the stored status of an instance is       *)
(* COMPLETED, EXPIRED or CANCELLED no step changes it, and no request that *)
(* writes to the instance is answered with success.                        *)
C1_TerminalIsFinal ==
  [][\A i \in DOMAIN measureInstance :
       measureInstance[i].status \in TerminalStatuses =>
         /\ measureInstance'[i].status = measureInstance[i].status
         /\ \A u \in Slots :
              (slot[u].pc \in {"getUpdate", "postCommit", "sendDispatch"}
                 /\ slot[u].iid = i /\ slot'[u].pc = "idle")
              => reply'.res # "ok"]_vars

(* C2: concurrent submit race.  When two submits have both read the same   *)
(* STARTED, unexpired instance before either wrote, the one that commits   *)
(* second succeeds exactly when the first one failed: exactly one of the   *)
(* two creates the Response and performs the COMPLETED transition, the     *)
(* other is answered with an error and creates nothing.                    *)
C2_ExactlyOneSubmitWins ==
  [][\A u \in Slots :
       (CommitsNow(u) /\ slot[u].st = "STARTED" /\ slot[u].rival # "none") =>
         IF slot[u].rival = "lost"
         THEN /\ reply'.res = "ok"
              /\ Len(measureResponse') = Len(measureResponse) + 1
              /\ measureInstance'[slot[u].iid].status = "COMPLETED"
         ELSE /\ reply'.res # "ok"
              /\ measureResponse' = measureResponse]_vars

(* C3: Response/status consistency.  In every reachable state an instance  *)
(* has a Response if and only if its stored status is COMPLETED, and it    *)
(* has at most one Response.                                               *)
C3_ResponseIffCompleted ==
  \A i \in DOMAIN measureInstance :
    /\ Cardinality(ResponsesOf(i)) <= 1
    /\ (ResponsesOf(i) # {}) <=> (measureInstance[i].status = "COMPLETED")

(* C4: live expiration check.  An open-link or submit request that reads   *)
(* an instance with now >= expiresAt whose stored status is still PENDING, *)
(* SENT or STARTED is answered with the expiration error and goes on to no *)
(* write.                                                                  *)
C4_ExpiredAtOrAfterDeadline ==
  [][\A u \in Slots, i \in DOMAIN measureInstance :
       (/\ slot[u].pc = "idle"
        /\ measureInstance[i].status \in ActiveStatuses
        /\ now >= measureInstance[i].expiresAt)
       => /\ ~(slot'[u].pc \in {"getUpdate", "postCommit"} /\ slot'[u].iid = i)
          /\ (slot' = slot /\ reply' # reply /\ reply'.op \in {"GET", "POST"}
                /\ reply'.iid = i) => reply'.res = "expired"]_vars

(* C5: idempotent generation.  A createMeasureInstances call never inserts *)
(* an instance for a (patient, encounter, measure) that already has one,   *)
(* so a second call for the same encounter leaves the instance set as the  *)
(* first call left it.                                                     *)
C5_CreateIsIdempotent ==
  [][\A u \in Slots :
       (slot[u].op = "create" /\ slot[u].pc = "createInsert" /\ InsertsNow
          /\ slot[u].appointmentId # NoAppointment)
       => ~\E i \in DOMAIN measureInstance :
             /\ measureInstance[i].patientId = slot[u].patientId
             /\ measureInstance[i].appointmentId = slot[u].appointmentId
             /\ measureInstance[i].measureId = Head(slot[u].todo)]_vars

(* C6: re-entrant batch generation.  Whatever way generateUpcomingInstances *)
(* runs overlap, every encounter has at most one instance per measure.     *)
C6_OneInstancePerEncounterMeasure ==
  \A i, j \in DOMAIN measureInstance :
    (/\ measureInstance[i].appointmentId # NoAppointment
     /\ measureInstance[i].appointmentId = measureInstance[j].appointmentId
     /\ measureInstance[i].measureId = measureInstance[j].measureId)
    => i = j

(* C7: expiration arithmetic.  Every instance createMeasureInstances       *)
(* inserts is PENDING, has the supplied due date (the current time when    *)
(* none was supplied) and expiresAt = dueDate + expirationDays of the      *)
(* stored policy.                                                          *)
C7_ExpirationArithmetic ==
  [][/\ \A u \in Slots :
          (slot[u].pc = "findMeasures" /\ slot'[u].pc = "createInsert") =>
            slot'[u].dueDate =
              IF slot[u].dueDate = NoTime THEN now ELSE slot[u].dueDate
     /\ \A u \in Slots :
          (slot[u].pc = "createInsert" /\ InsertsNow) =>
            LET new == measureInstance'[Len(measureInstance')] IN
              /\ new.status = "PENDING"
              /\ new.dueDate = slot[u].dueDate
              /\ new.expiresAt = new.dueDate + mbcPolicy.expirationDays
              /\ new.sentAt = NoTime /\ new.startedAt = NoTime
              /\ new.completedAt = NoTime]_vars

C7_Witness ==
  /\ reply.op = "create" /\ reply.res = "ok" /\ reply.count >= 1
  /\ \E i \in DOMAIN measureInstance :
       /\ measureInstance[i].dueDate = 1
       /\ measureInstance[i].expiresAt > measureInstance[i].dueDate

(* C8: expiration sweep effect.  The sweep's update sets to EXPIRED        *)
(* exactly the instances that are PENDING, SENT or STARTED with            *)
(* expiresAt < the sweep's now, changes no other field and no other        *)
(* instance, and returns the number of instances it changed.               *)
C8_SweepEffect ==
  [][\A u \in Slots : SweepsNow(u) =>
       /\ \A i \in DOMAIN measureInstance :
            LET old == measureInstance[i]
                new == measureInstance'[i]
            IN IF old.status \in {"PENDING", "SENT", "STARTED"}
                    /\ old.expiresAt < slot[u].t
               THEN new = [old EXCEPT !.status = "EXPIRED", !.sweeps = new.sweeps]
               ELSE new = old
       /\ reply'.op = "sweep"
       /\ reply'.count =
            Cardinality({i \in DOMAIN measureInstance :
                           measureInstance'[i].status # measureInstance[i].status})
     ]_vars

C8_Witness ==
  /\ reply.op = "sweep" /\ reply.count >= 1
  /\ \E i \in DOMAIN measureInstance :
       measureInstance[i].status = "EXPIRED" /\ measureInstance[i].expiresAt < now

(* C9: sweep idempotence.  Right after a sweep's update a second run with  *)
(* the same clock value matches no instance (it would change nothing and   *)
(* return 0), and a sweep never transitions an instance that a sweep       *)
(* overlapping with it has already transitioned.                           *)
C9_SweepIdempotent ==
  [][\A u \in Slots : SweepsNow(u) =>
       /\ updateManyExpired(measureInstance', slot[u].t).count = 0
       /\ updateManyExpired(measureInstance', slot[u].t).rows = measureInstance'
       /\ \A i \in slot[u].seen :
            measureInstance'[i].status = measureInstance[i].status]_vars

(* C10: race-safe default policy.  No getDefaultPolicy call fails with a   *)
(* uniqueness conflict on the policy name.                                 *)
C10_NoPolicyConflict == reply.res # "conflict"

(* ======================= claims C11 .. C20 ============================= *)

EventsOf(eventType, resourceId) ==
  {k \in DOMAIN auditEvent : /\ auditEvent[k].eventType = eventType
                             /\ auditEvent[k].resourceId = resourceId}

Finishes(u, pc) == slot[u].pc = pc /\ slot'[u].pc = "idle"

C12_EveryChangeIsAudited ==
  [][(auditSink /\ measureInstance' # measureInstance) =>
       /\ Len(auditEvent') > Len(auditEvent)
       /\ InsertsNow =>
            auditEvent' = Append(auditEvent,
                                 Event("INSTANCE_CREATED", "MeasureInstance",
                                       Len(measureInstance')))]_vars

Closed(i) ==
  \/ measureInstance[i].status \in {"COMPLETED", "EXPIRED"}
  \/ now > measureInstance[i].expiresAt

(* C13: no content or answers after completion or expiry.  No request      *)
(* returns the question list, and no submit is accepted, at a moment when  *)
(* the instance is COMPLETED, EXPIRED or past its expiresAt, whatever      *)
(* interleaving led there.                                                 *)
C13_NoContentWhenClosed ==
  [][\A u \in Slots :
       /\ Finishes(u, "getUpdate") => (reply'.res = "ok" => ~Closed(slot[u].iid))
       /\ Finishes(u, "postCommit") => (reply'.res = "ok" => ~Closed(slot[u].iid))
       /\ (slot[u].pc = "idle" /\ slot' = slot /\ reply' # reply
             /\ reply'.op = "GET" /\ reply'.res = "ok")
          => ~Closed(reply'.iid)]_vars

AnsweredAtLoad(u, i) ==
  /\ slot[u].pc = "idle" /\ slot' = slot /\ reply' # reply
  /\ reply'.op \in {"GET", "POST"} /\ reply'.iid = i

(* C14: distinct failure reasons.  An open-link or submit request on a     *)
(* COMPLETED instance is answered "already completed", also when its       *)
(* expiresAt has passed; on an instance that is not COMPLETED and whose    *)
(* expiresAt has passed it is answered "link has expired".                 *)
C14_DistinctFailureReasons ==
  [][\A i \in DOMAIN measureInstance :
       LET completed == measureInstance[i].status = "COMPLETED"
           lapsed == measureInstance[i].expiresAt < now
       IN /\ completed =>
               /\ GetOutcome(measureInstance, i, now) = "alreadyCompleted"
               /\ \A body \in Bodies :
                    PostOutcome(measureInstance, i, now, body) = "alreadyCompleted"
          /\ (~completed /\ lapsed) =>
               /\ GetOutcome(measureInstance, i, now) = "expired"
               /\ \A body \in Bodies :
                    PostOutcome(measureInstance, i, now, body) = "expired"
          /\ \A u \in Slots : AnsweredAtLoad(u, i) =>
               /\ completed => reply'.res = "alreadyCompleted"
               /\ (~completed /\ lapsed) => reply'.res = "expired"]_vars

C14_Witness ==
  /\ reply.res = "alreadyCompleted"
  /\ reply.iid \in DOMAIN measureInstance
  /\ measureInstance[reply.iid].status = "COMPLETED"
  /\ measureInstance[reply.iid].expiresAt < now

(* C15: cancelled instances reject submissions.  While an instance is      *)
(* CANCELLED and its expiresAt is still in the future, no step changes its *)
(* status or creates a Response for it, a submit is answered with an error *)
(* and an open-link request does not return the questions.                 *)
C15_CancelledRejects ==
  [][\A i \in DOMAIN measureInstance :
       (measureInstance[i].status = "CANCELLED" /\ measureInstance[i].expiresAt > now) =>
         /\ measureInstance'[i].status = "CANCELLED"
         /\ \A k \in DOMAIN measureResponse' :
              measureResponse'[k].measureInstanceId # i
         /\ \A u \in Slots :
              /\ AnsweredAtLoad(u, i) => reply'.res # "ok"
              /\ (slot[u].pc = "idle" /\ slot'[u].iid = i)
                   => slot'[u].pc \notin {"getUpdate", "postCommit"}
              /\ (Finishes(u, "postCommit") /\ slot[u].iid = i) => reply'.res # "ok"
     ]_vars

InstancesOfEncounter(a) ==
  {i \in DOMAIN measureInstance : measureInstance[i].appointmentId = a}

Eligible(a, daysAhead) ==
  /\ ~appointment[a].isCancelled
  /\ now <= appointment[a].scheduledAt
  /\ appointment[a].scheduledAt <= now + daysAhead
  /\ Cardinality(InstancesOfEncounter(a)) = 0

(* C16: batch selection.  A generateUpcomingInstances(daysAhead) run       *)
(* selects exactly the encounters that are not cancelled, are scheduled in *)
(* [now, now + daysAhead] and have no instance; every instance it inserts  *)
(* belongs to a selected, non-cancelled encounter whose only instances are *)
(* the ones this run has inserted.                                         *)
C16_BatchSelection ==
  [][/\ \A d \in DaysAheadChoices :
          UpcomingAppointments(now, d) = {a \in DOMAIN appointment : Eligible(a, d)}
     /\ \A u \in Slots :
          /\ (slot[u].pc = "idle" /\ slot'[u].op = "generate") =>
               {slot'[u].appointmentId} \cup Range(slot'[u].appts)
                 = {a \in DOMAIN appointment : Eligible(a, slot'[u].days)}
          /\ (slot[u].pc = "idle" /\ slot' = slot /\ reply' # reply
                 /\ reply'.op = "generate") =>
               /\ reply'.count = 0
               /\ \E d \in DaysAheadChoices :
                    {a \in DOMAIN appointment : Eligible(a, d)} = {}
          /\ (slot[u].op = "generate" /\ slot[u].pc = "createInsert" /\ InsertsNow) =>
               LET a == slot[u].appointmentId
                   required == SelectSeq2(MeasureTable,
                                          Range(slot[u].policy.measuresRequired))
               IN /\ ~appointment[a].isCancelled
                  /\ measureInstance'[Len(measureInstance')].appointmentId = a
                  /\ Cardinality(InstancesOfEncounter(a))
                       = Len(required) - Len(slot[u].todo)]_vars

C16_Witness ==
  /\ reply.op = "generate" /\ reply.res = "ok" /\ reply.count = 0
  /\ \E a \in DOMAIN appointment :
       /\ ~appointment[a].isCancelled
       /\ now <= appointment[a].scheduledAt
       /\ appointment[a].scheduledAt <= now + 1
       /\ InstancesOfEncounter(a) # {}

(* C17: due/overdue classification.  A getDueAssessments call that took    *)
(* its snapshot at time t under grace window g returns as due exactly the  *)
(* PENDING, SENT and STARTED instances with t - g <= dueDate <= t, and as  *)
(* overdue exactly the PENDING, SENT and STARTED instances with            *)
(* dueDate < t - g and expiresAt > t.  With g = 3 an instance due 2 days   *)
(* before t is due and one due 4 days before t with expiresAt > t is       *)
(* overdue; a COMPLETED instance is in neither set.                        *)
C17_DueOverdueClassification ==
  [][\A u \in Slots : (Finishes(u, "overdueQuery") /\ slot[u].op = "due") =>
       LET t == slot[u].t
           g == mbcPolicy.graceWindowDays
           active(i) == measureInstance[i].status \in {"PENDING", "SENT", "STARTED"}
           due == reply'.report.due
           overdue == reply'.report.overdue
       IN /\ reply'.res = "ok"
          /\ \A i \in DOMAIN measureInstance :
               /\ i \in due <=>
                    (active(i) /\ t - g <= measureInstance[i].dueDate
                               /\ measureInstance[i].dueDate <= t)
               /\ i \in overdue <=>
                    (active(i) /\ measureInstance[i].dueDate < t - g
                               /\ measureInstance[i].expiresAt > t)
               /\ measureInstance[i].status = "COMPLETED" =>
                    (i \notin due /\ i \notin overdue)
               /\ (g = 3 /\ active(i) /\ measureInstance[i].dueDate = t - 2) => i \in due
               /\ (g = 3 /\ active(i) /\ measureInstance[i].dueDate = t - 4
                      /\ measureInstance[i].expiresAt > t) => i \in overdue
          /\ due \subseteq DOMAIN measureInstance
          /\ overdue \subseteq DOMAIN measureInstance]_vars

C17_Witness ==
  /\ reply.op = "due" /\ reply.res = "ok"
  /\ mbcPolicy # NoPolicy /\ mbcPolicy.graceWindowDays = 3
  /\ \E i \in reply.report.due : measureInstance[i].dueDate = now - 2
  /\ \E i \in reply.report.overdue : measureInstance[i].dueDate = now - 4
  /\ \E i \in DOMAIN measureInstance : measureInstance[i].status = "COMPLETED"

MeasureNames == {"PHQ-9", "GAD-7", "PCL-5"}

Unscorable(name, answers) ==
  \/ answers = <<>>
  \/ \E k \in DOMAIN answers : answers[k].value \notin 0..3
  \/ name \notin {"PHQ-9", "GAD-7"}

(* C19: a scoring failure is a validation failure with no effect.  A       *)
(* submit of an answer array on an instance that is neither completed nor  *)
(* expired is answered with the 400 scoring error whenever the answers are *)
(* empty, hold a value outside 0..3, or the measure name is unknown; that  *)
(* answer leaves instances, Responses and the audit log unchanged, and     *)
(* only a submit whose answers score goes on to the commit.                *)
C19_ScoringFailureIsValidation ==
  [][\A i \in DOMAIN measureInstance :
       /\ \A body \in Bodies, name \in MeasureNames :
            LET table == [measureInstance EXCEPT ![i].measureId = name] IN
              (/\ body.isArray
               /\ Unscorable(name, body.answers)
               /\ table[i].status # "COMPLETED"
               /\ ~(table[i].expiresAt < now))
              => PostOutcome(table, i, now, body) = "scoringFailed"
       /\ \A u \in Slots :
            /\ (AnsweredAtLoad(u, i) /\ reply'.res = "scoringFailed") =>
                 /\ measureInstance' = measureInstance
                 /\ measureResponse' = measureResponse
                 /\ auditEvent' = auditEvent
            /\ (slot[u].pc = "idle" /\ slot'[u].pc = "postCommit" /\ slot'[u].iid = i) =>
                 \E body \in Bodies :
                   /\ body.isArray
                   /\ ~Unscorable(measureInstance[i].measureId, body.answers)
                   /\ slot'[u].score = SumValues(body.answers)]_vars

C19_Witness ==
  /\ reply.op = "POST" /\ reply.res = "scoringFailed"
  /\ reply.iid \in DOMAIN measureInstance
  /\ measureInstance[reply.iid].status = "STARTED"
  /\ measureInstance[reply.iid].completedAt = NoTime
  /\ ResponsesOf(reply.iid) = {}
  /\ \A k \in DOMAIN auditEvent : auditEvent[k].eventType = "QUESTIONNAIRE_STARTED"

(* C20: aggregator reads do not mutate.  No step of getDueAssessments or   *)
(* of the compliance endpoint changes an instance, a Response, an audit    *)
(* event or an encounter; the only stored value they change is the policy, *)
(* and only by creating the default policy when none exists.               *)
C20_AggregatorReadsOnly ==
  [][(\E u \in Slots : slot'[u] # slot[u]
                         /\ (slot[u].op \in {"due", "compliance"}
                               \/ slot'[u].op \in {"due", "compliance"})) =>
       /\ measureInstance' = measureInstance
       /\ measureResponse' = measureResponse
       /\ auditEvent' = auditEvent
       /\ appointment' = appointment
       /\ mbcPolicy' # mbcPolicy => (mbcPolicy = NoPolicy /\ mbcPolicy' = DefaultPolicy)
     ]_vars

C20_Witness ==
  /\ reply.op = "compliance" /\ reply.res = "ok"
  /\ mbcPolicy = DefaultPolicy
  /\ reply.report.due # {}
  /\ reply.report.overdue # {}
  /\ reply.report.totalCompleted > 0

(* ======================= claims C21 .. C30 ============================= *)

InstancesOfPatient(instances, p) ==
  {i \in DOMAIN instances : instances[i].patientId = p}

(* C21: intake generation.  A patient creation that ends under a policy    *)
(* with requireAtIntake = TRUE leaves exactly one instance per required    *)
(* measure for the new patient, each PENDING, without encounter, due at    *)
(* the time of the request and expiring expirationDays later, each with    *)
(* one INSTANCE_CREATED event; under requireAtIntake = FALSE the call      *)
(* returns without creating an instance or logging INSTANCE_CREATED.       *)
C21_IntakeGeneration ==
  [][\A u \in Slots :
       /\ (Finishes(u, "createInsert") /\ slot[u].op = "intakeCreate") =>
            LET mine == InstancesOfPatient(measureInstance', slot[u].patientId)
                required == Range(mbcPolicy'.measuresRequired)
            IN /\ mbcPolicy'.requireAtIntake
               /\ Cardinality(mine) = Cardinality(required)
               /\ \A m \in required :
                    Cardinality({i \in mine : measureInstance'[i].measureId = m}) = 1
               /\ \A i \in mine :
                    /\ measureInstance'[i].status = "PENDING"
                    /\ measureInstance'[i].appointmentId = NoAppointment
                    /\ measureInstance'[i].dueDate >= slot[u].t
                    /\ measureInstance'[i].dueDate <= now
                    /\ measureInstance'[i].expiresAt =
                         measureInstance'[i].dueDate + mbcPolicy'.expirationDays
                    /\ Cardinality(EventsOf("INSTANCE_CREATED", i)') = 1
               /\ reply'.count = Cardinality(mine)
       /\ (slot[u].op = "intake" /\ slot'[u].pc = "idle") =>
            /\ ~mbcPolicy'.requireAtIntake
            /\ measureInstance' = <<>>
            /\ \A k \in DOMAIN auditEvent' :
                 auditEvent'[k].eventType # "INSTANCE_CREATED"
            /\ reply'.op = "intake" /\ reply'.count = 0
       /\ slot'[u].op = "intakeCreate" => mbcPolicy'.requireAtIntake]_vars

C21_Witness ==
  /\ reply.op = "intakeCreate"
  /\ reply.count = 2
  /\ Len(measureInstance) = 2
  /\ \A i \in DOMAIN measureInstance :
       measureInstance[i].status = "PENDING" /\ measureInstance[i].dueDate = now

(* C22: SENT is entered only from PENDING.  Every step that changes the    *)
(* stored status of an instance to SENT finds it PENDING at that moment;   *)
(* in particular a STARTED instance is never moved back to SENT.           *)
C22_SentOnlyFromPending ==
  [][\A i \in DOMAIN measureInstance :
       (measureInstance'[i].status = "SENT" /\ measureInstance[i].status # "SENT")
         => measureInstance[i].status = "PENDING"]_vars

(* C23: the send path re-checks expiration.  For an instance whose         *)
(* expiresAt has passed while its stored status is still PENDING or SENT,  *)
(* no manual send proceeds to dispatch, no cron send selects it, and no    *)
(* step writes its sentAt.                                                 *)
C23_SendChecksExpiration ==
  [][\A i \in DOMAIN measureInstance :
       (measureInstance[i].status \in {"PENDING", "SENT"}
          /\ measureInstance[i].expiresAt < now) =>
         /\ \A u \in Slots :
              /\ (slot[u].pc = "idle" /\ slot'[u].pc = "sendDispatch")
                   => slot'[u].iid # i
              /\ (slot[u].pc = "idle" /\ slot'[u].pc = "cronSendLoop")
                   => i \notin Range(slot'[u].todo)
         /\ measureInstance'[i].sentAt = measureInstance[i].sentAt
         /\ measureInstance'[i].status = measureInstance[i].status
              \/ measureInstance'[i].status # "SENT"]_vars

(* C24: open-link transition.  An open-link request on an unexpired        *)
(* PENDING or SENT instance goes on to the update, which sets the status   *)
(* to STARTED and startedAt to the current time, changes nothing else,     *)
(* logs exactly one QUESTIONNAIRE_STARTED event (while the audit store is  *)
(* up) and returns the questions; on an unexpired STARTED instance the     *)
(* request returns the questions without an update step, so no field       *)
(* (startedAt included) and no log entry changes.                          *)
C24_OpenLinkTransition ==
  [][\A i \in DOMAIN measureInstance :
       /\ (measureInstance[i].status \in {"PENDING", "SENT"}
             /\ measureInstance[i].expiresAt >= now)
            => GetOutcome(measureInstance, i, now) = "start"
       /\ (measureInstance[i].status = "STARTED"
             /\ measureInstance[i].expiresAt >= now)
            => GetOutcome(measureInstance, i, now) = "ok"
       /\ \A u \in Slots :
            /\ (Finishes(u, "getUpdate") /\ slot[u].iid = i) =>
                 /\ measureInstance' =
                      [measureInstance EXCEPT ![i].status = "STARTED",
                                              ![i].startedAt = now]
                 /\ auditSink =>
                      auditEvent' = Append(auditEvent,
                        Event("QUESTIONNAIRE_STARTED", "MeasureInstance", i))
                 /\ measureResponse' = measureResponse
                 /\ reply'.res = "ok"
            /\ (slot[u].pc = "idle" /\ slot'[u].pc = "getUpdate"
                  /\ slot'[u].iid = i)
                 => /\ measureInstance[i].status \in {"PENDING", "SENT"}
                    /\ measureInstance[i].expiresAt >= now
            /\ (AnsweredAtLoad(u, i) /\ reply'.op = "GET"
                  /\ measureInstance[i].status = "STARTED"
                  /\ measureInstance[i].expiresAt >= now)
                 => /\ reply'.res = "ok"
                    /\ measureInstance' = measureInstance
                    /\ auditEvent' = auditEvent]_vars

C24_Witness ==
  /\ reply.op = "GET" /\ reply.res = "ok"
  /\ reply.iid \in DOMAIN measureInstance
  /\ measureInstance[reply.iid].status = "STARTED"
  /\ measureInstance[reply.iid].sentAt # NoTime
  /\ measureInstance[reply.iid].startedAt >= measureInstance[reply.iid].sentAt
  /\ measureInstance[reply.iid].startedAt < now
  /\ Cardinality(EventsOf("QUESTIONNAIRE_STARTED", reply.iid)) = 1

SubmitEvents(log) ==
  {k \in DOMAIN log : log[k].eventType \in {"QUESTIONNAIRE_SUBMITTED", "SCORE_COMPUTED"}}

(* C25: submit audit ordering.  The step that ends a successful submit     *)
(* stores the Response, sets the instance to COMPLETED and appends to the  *)
(* log QUESTIONNAIRE_SUBMITTED followed directly by SCORE_COMPUTED, both   *)
(* naming the stored Response; every such event in the log names a stored *)
(* Response; a submit that is rejected, and any step that stores no        *)
(* Response, adds neither event.                                           *)
C25_SubmitAuditOrdering ==
  [][/\ \A u \in Slots :
          /\ (Finishes(u, "postCommit") /\ reply'.res = "ok") =>
               LET r == Len(measureResponse')
               IN /\ r = Len(measureResponse) + 1
                  /\ measureResponse'[r].measureInstanceId = slot[u].iid
                  /\ measureInstance'[slot[u].iid].status = "COMPLETED"
                  /\ measureInstance'[slot[u].iid].completedAt = now
                  /\ auditEvent' = auditEvent \o
                       << Event("QUESTIONNAIRE_SUBMITTED", "MeasureResponse", r),
                          Event("SCORE_COMPUTED", "MeasureResponse", r) >>
          /\ (Finishes(u, "postCommit") /\ reply'.res # "ok")
               => auditEvent' = auditEvent
          /\ (slot[u].pc = "idle" /\ slot' = slot /\ reply'.op = "POST"
                /\ reply' # reply)
               => /\ reply'.res # "ok"
                  /\ auditEvent' = auditEvent
                  /\ measureInstance' = measureInstance
     /\ measureResponse' = measureResponse
          => SubmitEvents(auditEvent') = SubmitEvents(auditEvent)
     /\ \A k \in SubmitEvents(auditEvent') :
          /\ auditEvent'[k].resourceId \in DOMAIN measureResponse'
          /\ auditEvent'[k].eventType = "SCORE_COMPUTED" =>
               /\ k > 1
               /\ auditEvent'[k - 1] =
                    Event("QUESTIONNAIRE_SUBMITTED", "MeasureResponse",
                          auditEvent'[k].resourceId)]_vars

C25_Witness ==
  /\ reply.op = "POST" /\ reply.res = "ok"
  /\ Len(measureResponse) = 1
  /\ Len(auditEvent) = 3
  /\ auditEvent[1].eventType = "QUESTIONNAIRE_STARTED"
  /\ auditEvent[2] = Event("QUESTIONNAIRE_SUBMITTED", "MeasureResponse", 1)
  /\ auditEvent[3] = Event("SCORE_COMPUTED", "MeasureResponse", 1)
  /\ measureInstance[reply.iid].status = "COMPLETED"

(* C26: answer-count validation.  Whenever a submit is accepted for        *)
(* scoring and commit, every body the handler accepts for that instance    *)
(* at that moment holds exactly as many answers as its measure has         *)
(* questions (9 for PHQ-9, 7 for GAD-7); any other count is rejected and   *)
(* the instance is not completed.                                          *)
C26_AnswerCountValidated ==
  [][\A u \in Slots, i \in DOMAIN measureInstance :
       (slot[u].pc = "idle" /\ slot'[u].pc = "postCommit" /\ slot'[u].iid = i) =>
         \A body \in Bodies :
           PostOutcome(measureInstance, i, now, body) = "commit"
             => Len(body.answers) = QuestionCount(measureInstance[i].measureId)]_vars

InGrace(instances, t, g) ==
  {i \in DOMAIN instances :
     /\ instances[i].status \in ActiveStatuses
     /\ instances[i].dueDate < t
     /\ instances[i].dueDate >= t - g}

(* C27: grace window in the compliance metrics.  For a compliance request  *)
(* (no clinician filter) that ends on the day it began, metrics            *)
(* totalOverdue equals overdueCount, the length of the overdue list, so    *)
(* an active instance past its dueDate but inside the grace window is      *)
(* not counted as overdue.                                                 *)
C27_GraceWindowInMetrics ==
  [][(Finishes(1, "overdueQuery") /\ slot[1].op = "compliance"
        /\ slot[1].report.startDate = now - slot[1].days) =>
       /\ reply'.report.totalOverdue = Cardinality(reply'.report.overdue)
       /\ (InGrace(measureInstance, now, slot[1].policy.graceWindowDays) # {}
             /\ OverdueSet(measureInstance, now, slot[1].policy.graceWindowDays) = {})
            => reply'.report.totalOverdue = 0]_vars

(* C28: status/timestamp consistency.  In every reachable state, for every *)
(* instance: completedAt is set exactly when the status is COMPLETED;      *)
(* STARTED implies startedAt is set; SENT implies sentAt is set and        *)
(* startedAt is not; PENDING implies none of the three is set.             *)
C28_StatusTimestampConsistency ==
  \A i \in DOMAIN measureInstance :
    LET m == measureInstance[i]
    IN /\ (m.completedAt # NoTime) <=> (m.status = "COMPLETED")
       /\ m.status = "STARTED" => m.startedAt # NoTime
       /\ m.status = "SENT" => (m.sentAt # NoTime /\ m.startedAt = NoTime)
       /\ m.status = "PENDING" =>
            (m.sentAt = NoTime /\ m.startedAt = NoTime /\ m.completedAt = NoTime)

(* C29: compliance rate range.  Every compliance response carries a        *)
(* complianceRate between 0 and 100 (0..1000 tenths of a percent): when    *)
(* the due-in-window count is positive the completed-in-window count does  *)
(* not exceed it.                                                          *)
C29_ComplianceRateRange ==
  [][(Finishes(1, "overdueQuery") /\ slot[1].op = "compliance") =>
       /\ reply'.report.complianceRate >= 0
       /\ reply'.report.complianceRate <= 1000
       /\ reply'.report.totalDue > 0
            => reply'.report.totalCompleted <= reply'.report.totalDue]_vars

(* C30: eventual termination.  With the clock advancing and the sweep      *)
(* running again and again, every instance eventually has a terminal       *)
(* status (COMPLETED, EXPIRED or CANCELLED) and keeps it from then on.     *)
C30_EventualTermination ==
  \A i \in 1..MaxInstances :
    <>[](i \in DOMAIN measureInstance
           => measureInstance[i].status \in TerminalStatuses)
====
